---- MODULE Spec2Model ----
(***************************************************************************)
(* Model of the per-source shadow cache of Elevated Vision:                *)
(*   - ShadowTextureRenderer / ShadowVisionLOSTextureRenderer              *)
(*   - the RenderedPointSource wrappers (_configure, destroy)              *)
(*   - the initialize*SourceShaders hook and the wall document hooks       *)
(* All of them live in src/scripts/glsl/patch_lighting_shaders.js.         *)
(* The wall index (PointSourceShadowWallGeometry) and the shadow mesh      *)
(* (ShadowWallPointSourceMesh) are imported from files that are not part   *)
(* of the sources at hand; their behaviour is taken from the design text.  *)
(***************************************************************************)
EXTENDS Integers, Sequences, FiniteSets, TLC

VARIABLES data, ev, walls, destroyed, edited, last, shading, uniforms,
          probe, rend, created

vars ==
  <<data, ev, walls, destroyed, edited, last, shading, uniforms, probe, rend,
    created>>

----------------------------------------------------------------------------
(* Bounds of the model *)

\* The wall documents of the scene.
WallIds == {1}

\* Number of radii the host gives a source.
NumRadii == 2

\* The k-th radius: the first below, the others above the radius at which
\* the texture reaches MAX_TEXTURE_SIZE.
Radius(k) == IF k = 1 THEN 50 ELSE 1000 * (k + 1)

\* canvas.effects.lightSources, then canvas.effects.visionSources, then
\* canvas.sounds.sources, in the order the wall hooks spread them into
\* `sources`.
Sources == <<"L1", "G", "V1", "S1">>

SourceIds == {Sources[i] : i \in 1..Len(Sources)}

\* The radii and elevations the host gives a source. The position of a source
\* is not kept: a change of it shows as the keys "x" and "y" of `changes`.
\* The global light has one radius and one elevation for the whole scene.
RadiiOf(s) ==
  IF s = "G" THEN {Radius(2)} ELSE {Radius(k) : k \in 1..NumRadii}
ElevationsOf(s) == IF s = "G" THEN {20} ELSE {5, 20}

\* Keys a `changes` object of _configure may carry.
ChangeKeys == {"x", "y", "radius", "elevation"}

\* The `changes` objects the host passes: any of these keys, or a key the
\* wrapper does not look at.
ChangeSets == (SUBSET ChangeKeys) \cup {{"alpha"}}

\* Keys the flattened `data` of an updateWall notification may carry.
WallKeys == {"c", "light", "door"}

----------------------------------------------------------------------------
(* Program constants *)

MAX_TEXTURE_SIZE == 4096

\* canvas.dimensions of the scene (read by the line-of-sight renderer).
CanvasWidth == 6000
CanvasHeight == 4000

\* Top elevation of every wall of the scene.
WallTop == 10

\* SourceShadowWallGeometry.CHANGE_FLAGS
WALL_COORDINATES == {"c"}
WALL_RESTRICTED == {"light"}

\* The asset names destroyRenderedPointSource walks, in its order.
Assets ==
  << "shadowQuadMesh", "shadowRenderer", "shadowMesh", "wallGeometry",
     "shadowVisionMask", "shadowVisionLOSMask", "shadowVisionLOSMesh",
     "shadowVisionLOSRenderer", "losGeometry" >>

AssetSet == {Assets[i] : i \in 1..Len(Assets)}

IsGlobalLightSource(s) == s = "G"
IsVisionSource(s) == s = "V1"
IsSoundSource(s) == s = "S1"

\* The sources whose shaders the host initializes: the hooks are registered
\* for light and vision sources only.
IsRenderedSource(s) == ~IsSoundSource(s)

----------------------------------------------------------------------------
(* ShadowTextureRenderer *)

Max(a, b) == IF a >= b THEN a ELSE b
Min(a, b) == IF a <= b THEN a ELSE b

\* A quotient num/den, kept exact.
Frac(n, d) == [num |-> n, den |-> d]
FracEq(a, b) == a.num * b.den = b.num * a.den
FracLeq(a, b) == a.num * b.den <= b.num * a.den

\* A variant of the width getter that returns the radius.
WidthOfRadius(los, radius) == IF los THEN CanvasWidth ELSE radius

\* get width / get height
Width(los, radius) == IF los THEN CanvasWidth ELSE radius * 2
Height(los, radius) == IF los THEN CanvasHeight ELSE radius * 2

\* A variant of the getter that does not cap the texture size.
ResolutionUncapped(width, height) ==
  LET resolution == 1
      maxSize == resolution * Max(width, height)
  IN IF width >= height THEN Frac(maxSize, width) ELSE Frac(maxSize, height)

\* get resolution, for the values the getters width and height return
ResolutionOf(width, height) ==
  LET resolution == 1
      maxSize == Min(MAX_TEXTURE_SIZE, resolution * Max(width, height))
  IN IF width >= height THEN Frac(maxSize, width) ELSE Frac(maxSize, height)

Resolution(los, radius) ==
  ResolutionOf(Width(los, radius), Height(los, radius))

\* configureTexture
ConfigureTexture(los, radius) ==
  [width |-> Width(los, radius), height |-> Height(los, radius),
   resolution |-> Resolution(los, radius)]

NoTexture == [width |-> 0, height |-> 0, resolution |-> Frac(0, 1)]

----------------------------------------------------------------------------
(* The cache object source[MODULE_ID] *)

\* has: source[MODULE_ID] is an object; set: the fields that hold a value.
NoCache ==
  [has |-> FALSE, set |-> {}, walls |-> {}, meshGeom |-> "none",
   losMeshGeom |-> "none", rendMesh |-> "none", tex |-> NoTexture,
   losTex |-> NoTexture]

Has(c, a) == a \in c.set

\* ev[asset] = undefined, and what the object held goes with it.
Unset(c, a) ==
  LET c1 == [c EXCEPT !.set = @ \ {a}]
  IN CASE a = "wallGeometry" -> [c1 EXCEPT !.walls = {}]
       [] a = "shadowMesh" -> [c1 EXCEPT !.meshGeom = "none"]
       [] a = "shadowVisionLOSMesh" -> [c1 EXCEPT !.losMeshGeom = "none"]
       [] a = "shadowRenderer" ->
            [c1 EXCEPT !.rendMesh = "none", !.tex = NoTexture]
       [] a = "shadowVisionLOSRenderer" -> [c1 EXCEPT !.losTex = NoTexture]
       [] OTHER -> c1

\* The state a handler threads through its statements: the caches, the calls
\* made so far on collaborators, and whether an exception is propagating.
Start(e) == [ev |-> e, calls |-> <<>>, err |-> FALSE]

Call(m, s, o, op) ==
  [m EXCEPT !.calls = Append(@, [src |-> s, obj |-> o, op |-> op])]

Throw(m) == [m EXCEPT !.err = TRUE]

SetEv(m, s, c) == [m EXCEPT !.ev[s] = c]

----------------------------------------------------------------------------
(* Walls and the per-source wall index (PointSourceShadowWallGeometry) *)

\* A wall document: whether it is in the scene and whether it blocks light.
\* Its coordinates are not kept: a move shows as the key "c" of `changes`.
NoWall == [exists |-> FALSE, blocks |-> FALSE]

WallStates == {NoWall} \cup [exists : {TRUE}, blocks : BOOLEAN]

\* A wall can occlude a source that stands above its top and that it blocks.
Relevant(d, w) == w.exists /\ w.blocks /\ d.elevation > WallTop

\* new PointSourceShadowWallGeometry(source): a full scan of the walls.
ScanWalls(d, W) == {i \in WallIds : Relevant(d, W[i])}

\* addWall(wall): takes the wall when it is relevant to the source.
AddWall(idx, d, W, i) ==
  IF Relevant(d, W[i]) THEN idx \cup {i} ELSE idx

\* removeWall(id): nothing when the wall is absent.
RemoveWall(idx, i) == idx \ {i}

\* updateWall(wall, {changes}): re-evaluates the wall, then updates, inserts
\* or evicts it.
UpdateWall(idx, d, W, i) ==
  IF Relevant(d, W[i])
    THEN RemoveWall(idx, i) \cup {i}
    ELSE RemoveWall(idx, i)

\* refreshWalls(): re-evaluates every wall against the source as it is now.
RefreshWalls(d, W) == ScanWalls(d, W)

----------------------------------------------------------------------------
(* Calls on the renderers *)

\* renderShadowMeshToTexture / update
Render(m, s, r) == Call(m, s, r, "render")

\* A variant that rasterizes first and resizes the texture afterwards.
UpdateSourceRadiusRenderFirst(m, s, d) ==
  LET m1 == Render(m, s, "shadowRenderer")
      t == [width |-> Width(FALSE, d.radius),
            height |-> Height(FALSE, d.radius),
            resolution |-> Resolution(FALSE, d.radius)]
  IN Call(SetEv(m1, s, [m1.ev[s] EXCEPT !.tex = t]),
          s, "shadowRenderer", "resize")

\* updateSourceRadius: setResolution, resize, then render.
UpdateSourceRadius(m, s, d) ==
  LET c == m.ev[s]
      t == [width |-> Width(FALSE, d.radius),
            height |-> Height(FALSE, d.radius),
            resolution |-> Resolution(FALSE, d.radius)]
  IN Render(Call(SetEv(m, s, [c EXCEPT !.tex = t]),
                 s, "shadowRenderer", "resize"),
            s, "shadowRenderer")

\* updateLOSGeometryVisionSource: (re)triangulates source[MODULE_ID].losGeometry
UpdateLOSGeometryVisionSource(m, s) ==
  Call(SetEv(m, s, [m.ev[s] EXCEPT !.set = @ \cup {"losGeometry"}]),
       s, "losGeometry", "triangulate")

----------------------------------------------------------------------------
(* _configureRenderedPointSource *)

\* The block guarded by changedPosition || changedElevation || changedRadius.
\* The wall index is looked up under `geom`, a field no code assigns.
RefreshSourceGeometry(m, s, d, W) ==
  LET c == m.ev[s]
      m1 == IF Has(c, "geom")
              THEN Call(SetEv(m, s, [c EXCEPT !.walls = RefreshWalls(d, W)]),
                        s, "geom", "refreshWalls")
              ELSE m
      m2 == IF Has(c, "shadowMesh")
              THEN Call(m1, s, "shadowMesh", "updateLightPosition")
              ELSE m1
      m3 == IF Has(c, "shadowVisionLOSMesh")
              THEN Call(m2, s, "shadowVisionLOSMesh", "updateLightPosition")
              ELSE m2
  IN IF IsVisionSource(s) THEN UpdateLOSGeometryVisionSource(m3, s) ELSE m3

\* ev.shadowQuadMesh?.updateGeometry(ev.shadowRenderer.sourceBounds)
UpdateQuadMesh(m, s) ==
  IF ~Has(m.ev[s], "shadowQuadMesh") THEN m
  ELSE IF ~Has(m.ev[s], "shadowRenderer") THEN Throw(m)
  ELSE Call(m, s, "shadowQuadMesh", "updateGeometry")

\* ev.shadowVisionMask.position.copyFrom(this) and
\* ev.shadowVisionMask.scale = {...}: no optional chaining on the mask.
UpdateVisionMask(m, s, op) ==
  IF m.err THEN m
  ELSE IF ~Has(m.ev[s], "shadowVisionMask") THEN Throw(m)
  ELSE Call(m, s, "shadowVisionMask", op)

\* if ( changedPosition ) { ... }
ConfigurePosition(m, s) ==
  LET c == m.ev[s]
      m1 == IF Has(c, "shadowRenderer")
              THEN Render(m, s, "shadowRenderer") ELSE m
      m2 == IF Has(c, "shadowVisionLOSRenderer")
              THEN Render(m1, s, "shadowVisionLOSRenderer") ELSE m1
  IN UpdateVisionMask(UpdateQuadMesh(m2, s), s, "position")

\* else if ( changedRadius ) { ... }
ConfigureRadius(m, s, d) ==
  LET m1 == IF Has(m.ev[s], "shadowRenderer")
              THEN UpdateSourceRadius(m, s, d) ELSE m
  IN UpdateVisionMask(UpdateQuadMesh(m1, s), s, "scale")

\* else if ( changedElevation ) { ... }
ConfigureElevation(m, s) ==
  LET c == m.ev[s]
      m1 == IF Has(c, "shadowRenderer")
              THEN Render(m, s, "shadowRenderer") ELSE m
  IN IF Has(c, "shadowVisionLOSRenderer")
       THEN Render(m1, s, "shadowVisionLOSRenderer") ELSE m1

\* A variant that rasterizes again whatever the keys of `changes` are.
ConfigureAlwaysRasterizing(e, s, d, W, changes) ==
  LET m0 == Call(Start(e), s, "wrapped", "configure")
      changedPosition == "x" \in changes \/ "y" \in changes
      changedRadius == "radius" \in changes
      changedElevation == "elevation" \in changes
  IN IF ~e[s].has THEN m0
     ELSE LET m1 == IF changedPosition \/ changedElevation \/ changedRadius
                      THEN RefreshSourceGeometry(m0, s, d, W) ELSE m0
          IN IF changedPosition THEN ConfigurePosition(m1, s)
             ELSE IF changedRadius THEN ConfigureRadius(m1, s, d)
             ELSE ConfigureElevation(m1, s)

\* The wrapper, run on source s whose data d the host has already updated.
ConfigureRenderedPointSource(e, s, d, W, changes) ==
  LET m0 == Call(Start(e), s, "wrapped", "configure")
      changedPosition == "x" \in changes \/ "y" \in changes
      changedRadius == "radius" \in changes
      changedElevation == "elevation" \in changes
  IN IF ~e[s].has THEN m0
     ELSE LET m1 == IF changedPosition \/ changedElevation \/ changedRadius
                      THEN RefreshSourceGeometry(m0, s, d, W) ELSE m0
          IN IF changedPosition THEN ConfigurePosition(m1, s)
             ELSE IF changedRadius THEN ConfigureRadius(m1, s, d)
             ELSE IF changedElevation THEN ConfigureElevation(m1, s)
             ELSE m1

----------------------------------------------------------------------------
(* destroyRenderedPointSource *)

\* The loop without `ev[asset] = undefined`: the assets stay on the cache.
RECURSIVE DestroyAssetsKeepingFields(_, _, _)
DestroyAssetsKeepingFields(m, s, i) ==
  IF i > Len(Assets) THEN m
  ELSE IF ~Has(m.ev[s], Assets[i])
    THEN DestroyAssetsKeepingFields(m, s, i + 1)
  ELSE DestroyAssetsKeepingFields(Call(m, s, Assets[i], "destroy"), s, i + 1)

\* for ( const asset of assets ) from position i on.
RECURSIVE DestroyAssets(_, _, _)
DestroyAssets(m, s, i) ==
  IF i > Len(Assets) THEN m
  ELSE LET a == Assets[i]
       IN IF ~Has(m.ev[s], a) THEN DestroyAssets(m, s, i + 1)
          ELSE DestroyAssets(
                 Call(SetEv(m, s, Unset(m.ev[s], a)), s, a, "destroy"),
                 s, i + 1)

\* A variant that calls the wrapped method first and releases the assets
\* afterwards.
DestroyWrappedFirst(e, s) ==
  IF ~e[s].has THEN Call(Start(e), s, "wrapped", "destroy")
  ELSE DestroyAssets(Call(Start(e), s, "wrapped", "destroy"), s, 1)

\* A variant without `if ( !ev ) return wrapped()`: reading a field of the
\* missing cache raises before the wrapped method is reached.
DestroyWithoutCacheCheck(e, s) ==
  IF ~e[s].has THEN Throw(Start(e))
  ELSE Call(DestroyAssets(Start(e), s, 1), s, "wrapped", "destroy")

DestroyRenderedPointSource(e, s) ==
  IF ~e[s].has THEN Call(Start(e), s, "wrapped", "destroy")
  ELSE Call(DestroyAssets(Start(e), s, 1), s, "wrapped", "destroy")

----------------------------------------------------------------------------
(* initializeSourceShadersHook *)

\* Whether PIXI.RenderTexture.create fails, and for which renderer.
AllocOutcomes == {"ok", "std", "los"}

New(m, s, a) ==
  Call(SetEv(m, s, [m.ev[s] EXCEPT !.set = @ \cup {a}]), s, a, "new")

\* ev.wallGeometry ??= new PointSourceShadowWallGeometry(source)
InitWallGeometry(m, s, d, W) ==
  IF Has(m.ev[s], "wallGeometry") THEN m
  ELSE LET m1 == New(m, s, "wallGeometry")
       IN SetEv(m1, s, [m1.ev[s] EXCEPT !.walls = ScanWalls(d, W)])

\* The geometry a mesh is handed: the field of the cache named, if it is set.
GeometryRef(c, field) == IF Has(c, field) THEN field ELSE "undefined"

\* The mesh handed a field of the cache that nothing assigns.
InitShadowMeshFromUnsetField(m, s) ==
  IF Has(m.ev[s], "shadowMesh") THEN m
  ELSE LET g == GeometryRef(m.ev[s], "geom")
           m1 == New(m, s, "shadowMesh")
       IN SetEv(m1, s, [m1.ev[s] EXCEPT !.meshGeom = g])

\* if ( !ev.shadowMesh ) { ev.shadowMesh = new ShadowWallPointSourceMesh(...) }
InitShadowMesh(m, s) ==
  IF Has(m.ev[s], "shadowMesh") THEN m
  ELSE LET g == GeometryRef(m.ev[s], "wallGeometry")
           m1 == New(m, s, "shadowMesh")
       IN SetEv(m1, s, [m1.ev[s] EXCEPT !.meshGeom = g])

\* A variant with `=` for `??=`: a renderer is constructed on every run.
InitShadowRendererAnew(m, s, d, alloc) ==
  IF alloc = "std" THEN Throw(m)
  ELSE LET m1 == New(m, s, "shadowRenderer")
           m2 == SetEv(m1, s,
                   [m1.ev[s] EXCEPT
                      !.rendMesh = GeometryRef(m.ev[s], "shadowMesh"),
                      !.tex = ConfigureTexture(FALSE, d.radius)])
       IN Render(m2, s, "shadowRenderer")

\* ev.shadowRenderer ??= new ShadowTextureRenderer(source, ev.shadowMesh);
\* ev.shadowRenderer.renderShadowMeshToTexture();
InitShadowRenderer(m, s, d, alloc) ==
  IF Has(m.ev[s], "shadowRenderer") THEN Render(m, s, "shadowRenderer")
  ELSE IF alloc = "std" THEN Throw(m)
  ELSE LET m1 == New(m, s, "shadowRenderer")
           m2 == SetEv(m1, s,
                   [m1.ev[s] EXCEPT
                      !.rendMesh = GeometryRef(m.ev[s], "shadowMesh"),
                      !.tex = ConfigureTexture(FALSE, d.radius)])
       IN Render(m2, s, "shadowRenderer")

\* if ( !ev.shadowVisionMask ) { ... }
InitVisionMask(m, s) ==
  IF Has(m.ev[s], "shadowVisionMask") THEN m
  ELSE New(m, s, "shadowVisionMask")

\* if ( source instanceof VisionSource && !ev.shadowVisionLOSMesh ) { ... }
\* The mesh is handed ev.visionLOSShadowGeometry.
InitVisionLOS(m, s, d, alloc) ==
  IF ~IsVisionSource(s) \/ Has(m.ev[s], "shadowVisionLOSMesh") THEN m
  ELSE LET g == GeometryRef(m.ev[s], "visionLOSShadowGeometry")
           m1 == New(m, s, "shadowVisionLOSMesh")
           m2 == SetEv(m1, s, [m1.ev[s] EXCEPT !.losMeshGeom = g])
       IN IF alloc = "los" THEN Throw(m2)
          ELSE LET m3 == New(m2, s, "shadowVisionLOSRenderer")
                   m4 == SetEv(m3, s,
                           [m3.ev[s] EXCEPT
                              !.losTex = ConfigureTexture(TRUE, d.radius)])
                   m5 == Render(m4, s, "shadowVisionLOSRenderer")
                   m6 == UpdateLOSGeometryVisionSource(m5, s)
               IN New(m6, s, "shadowVisionLOSMask")

\* if ( !ev.shadowQuadMesh ) { ... }
InitQuadMesh(m, s) ==
  IF Has(m.ev[s], "shadowQuadMesh") THEN m
  ELSE New(m, s, "shadowQuadMesh")

\* The hook from `const ev = source[MODULE_ID] ??= {}` on.
BuildSourceShaders(e, s, d, W, alloc) ==
  LET m0 == SetEv(Start(e), s, [e[s] EXCEPT !.has = TRUE])
      m1 == InitShadowMesh(InitWallGeometry(m0, s, d, W), s)
      m2 == InitShadowRenderer(m1, s, d, alloc)
  IN IF m2.err THEN m2
     ELSE LET m3 == InitVisionLOS(InitVisionMask(m2, s), s, d, alloc)
          IN IF m3.err THEN m3
             ELSE Call(InitQuadMesh(m3, s), s, "uniforms", "uEVShadowSampler")

\* The hook without its first line, the GlobalLightSource test.
InitializeAnySourceShaders(e, s, d, W, alloc) ==
  BuildSourceShaders(e, s, d, W, alloc)

InitializeSourceShadersHook(e, s, d, W, alloc) ==
  IF IsGlobalLightSource(s) THEN Start(e)
  ELSE BuildSourceShaders(e, s, d, W, alloc)

----------------------------------------------------------------------------
(* createWallHook, updateWallHook, deleteWallHook *)

\* Where, if anywhere, a collaborator raises during the fan-out: in the wall
\* index call or in the re-rasterize of one source.
NoFail == [src |-> "none", at |-> "none"]
Failures == {NoFail} \cup [src : SourceIds, at : {"index", "render"}]

\* A call can only raise where it is made.
CanFail(e, fail) ==
  \/ fail = NoFail
  \/ fail.at = "index" /\ Has(e[fail.src], "wallGeometry")
  \/ fail.at = "render" /\ Has(e[fail.src], "shadowRenderer")

\* The wall index call of each hook.
IndexOp(kind) ==
  CASE kind = "createWall" -> "addWall"
    [] kind = "updateWall" -> "updateWall"
    [] kind = "deleteWall" -> "removeWall"

ApplyIndexOp(kind, idx, d, W, w) ==
  CASE kind = "createWall" -> AddWall(idx, d, W, w)
    [] kind = "updateWall" -> UpdateWall(idx, d, W, w)
    [] kind = "deleteWall" -> RemoveWall(idx, w)

\* The body of for ( const src of sources ).
WallLoopBody(m, s, kind, D, W, w, fail) ==
  LET c == m.ev[s]
  IN IF ~c.has THEN m
     ELSE LET m1 == IF ~Has(c, "wallGeometry") THEN m
                    ELSE IF fail = [src |-> s, at |-> "index"]
                      THEN Throw(Call(m, s, "wallGeometry", IndexOp(kind)))
                    ELSE Call(SetEv(m, s,
                                [c EXCEPT !.walls =
                                   ApplyIndexOp(kind, c.walls, D[s], W, w)]),
                              s, "wallGeometry", IndexOp(kind))
          IN IF m1.err \/ ~Has(c, "shadowRenderer") THEN m1
             ELSE IF fail = [src |-> s, at |-> "render"]
               THEN Throw(Render(m1, s, "shadowRenderer"))
             ELSE Render(m1, s, "shadowRenderer")

RECURSIVE WallLoop(_, _, _, _, _, _, _)
WallLoop(m, i, kind, D, W, w, fail) ==
  IF i > Len(Sources) \/ m.err THEN m
  ELSE WallLoop(WallLoopBody(m, Sources[i], kind, D, W, w, fail),
                i + 1, kind, D, W, w, fail)

\* A variant of the test that lets every update of a wall through.
AnyWallChangeIsRelevant(changes) == changes \subseteq WallKeys

\* updateWallHook returns early unless a coordinate or restriction key changed.
WallChangeIsRelevant(changes) ==
  (WALL_COORDINATES \cap changes # {}) \/ (WALL_RESTRICTED \cap changes # {})

WallHook(e, kind, D, W, w, changes, fail) ==
  IF kind = "updateWall" /\ ~WallChangeIsRelevant(changes) THEN Start(e)
  ELSE WallLoop(Start(e), 1, kind, D, W, w, fail)

----------------------------------------------------------------------------
(* The uniforms of the lighting shaders of a source *)

\* SETTINGS.SHADING.TYPES
ShadingTypes == {"WEBGL", "POLYGONS"}

\* source.layers
Layers == {"background", "coloration", "illumination"}

\* The uniforms this code writes, before the shader of a layer is created.
NoUniforms ==
  [created |-> FALSE, uEVShadowSampler |-> "unset", uEVShadows |-> FALSE,
   EVshadows |-> "unset"]

NoShaders == [l \in Layers |-> NoUniforms]

\* createAdaptiveLightingShader: what it writes on the shader it returns.
CreateAdaptiveLightingShader(algorithm) ==
  [created |-> TRUE, uEVShadowSampler |-> "0",
   uEVShadows |-> (algorithm = "WEBGL"), EVshadows |-> "unset"]

\* The host creates the shader of every layer of a source before it calls the
\* initialize*SourceShaders hook for the first time.
ShadersOf(u, algorithm) ==
  [l \in Layers |->
     IF u[l].created THEN u[l] ELSE CreateAdaptiveLightingShader(algorithm)]

\* A variant of the hook that leaves the sampler as the shader was created.
HookUniformsWithoutSampler(u, c, m, algorithm) ==
  IF Has(c, "shadowMesh") THEN u
  ELSE [l \in Layers |->
          [u[l] EXCEPT !.EVshadows =
             IF algorithm = "WEBGL" THEN "true" ELSE "false"]]

\* The uniforms initializeSourceShadersHook writes: `EVshadows` with a new
\* shadow mesh, the sampler as its last statements. c is the cache before the
\* hook and m the machine after it.
HookUniforms(u, c, m, algorithm) ==
  LET u1 == IF Has(c, "shadowMesh") THEN u
            ELSE [l \in Layers |->
                    [u[l] EXCEPT !.EVshadows =
                       IF algorithm = "WEBGL" THEN "true" ELSE "false"]]
  IN IF m.err THEN u1
     ELSE [l \in Layers |-> [u1[l] EXCEPT !.uEVShadowSampler = "baseTexture"]]

\* ShadowTextureRenderer.destroy() destroys the render texture; a sampler
\* uniform that holds its base texture then holds a destroyed texture. c is
\* the cache before destroyRenderedPointSource.
DestroyedTextureUniforms(u, c) ==
  IF ~(c.has /\ Has(c, "shadowRenderer")) THEN u
  ELSE [l \in Layers |->
          IF u[l].uEVShadowSampler = "baseTexture"
            THEN [u[l] EXCEPT !.uEVShadowSampler = "destroyedTexture"]
            ELSE u[l]]

\* Values of the variables that a specification does not exercise.
NoProbe == [done |-> FALSE]
NoRenderer == [made |-> FALSE]

----------------------------------------------------------------------------
(* The state machine: the host delivers one notification at a time *)

SourceData(s) == [radius : RadiiOf(s), elevation : ElevationsOf(s)]

InitialData(s) ==
  IF s = "G" THEN [radius |-> Radius(2), elevation |-> 20]
  ELSE [radius |-> Radius(1), elevation |-> 20]

\* In one run the user works on one placeable or on the scene's global light:
\* its source is the one that is configured and destroyed, and whose render
\* textures can fail to allocate or whose collaborators can raise. The other sources are at most initialized,
\* and take part in the fan-out of the wall hooks.
EditableSources == {"L1", "G", "V1"}

\* What is remembered of the handler that ran last.
Handled(op, s, changes, w, m) ==
  [op |-> op, src |-> s, changes |-> changes, wall |-> w, alloc |-> "ok",
   calls |-> m.calls, err |-> m.err]

Init ==
  /\ data = [s \in SourceIds |-> InitialData(s)]
  /\ ev = [s \in SourceIds |-> NoCache]
  /\ walls \in [WallIds -> WallStates]
  /\ destroyed = [s \in SourceIds |-> FALSE]
  /\ edited \in EditableSources
  /\ last = [op |-> "none", src |-> "none", changes |-> {}, wall |-> 0,
             alloc |-> "ok", calls |-> <<>>, err |-> FALSE]
  /\ shading = "WEBGL"
  /\ uniforms = [s \in SourceIds |->
                   IF IsGlobalLightSource(s) THEN ShadersOf(NoShaders, shading)
                   ELSE NoShaders]
  /\ probe = NoProbe
  /\ rend = NoRenderer
  /\ created = <<>>

\* Hooks "initializeLightSourceShaders" / "initializeVisionSourceShaders".
\* The global light of the scene has its shaders from the load of the scene;
\* the shaders of a placeable are created when the host initializes them,
\* right before it calls the hook.
ShadersInitialized(s, alloc) ==
  /\ IsRenderedSource(s)
  /\ alloc # "ok" => (s = edited /\ ~IsGlobalLightSource(s))
  /\ alloc = "std" => ~Has(ev[s], "shadowRenderer")
  /\ alloc = "los" =>
       IsVisionSource(s) /\ ~Has(ev[s], "shadowVisionLOSMesh")
  /\ \E m \in {InitializeSourceShadersHook(ev, s, data[s], walls, alloc)} :
     /\ ev' = m.ev
     /\ uniforms' =
          [uniforms EXCEPT ![s] =
             IF IsGlobalLightSource(s) THEN ShadersOf(@, shading)
             ELSE HookUniforms(ShadersOf(@, shading), ev[s], m, shading)]
     /\ last' =
          [Handled("initializeShaders", s, {}, 0, m) EXCEPT !.alloc = alloc]
     /\ UNCHANGED <<data, walls, destroyed, edited, shading, probe, rend>>

\* The order in which the caches were created is recorded only where a
\* property speaks of it (SpecFanout).
InitializeShaders(s, alloc) ==
  /\ ShadersInitialized(s, alloc)
  /\ UNCHANGED created

\* The data of the source has changed on exactly the keys of `changes`
\* that the data here holds.
Changed(old, new, changes) ==
  /\ (old.radius # new.radius) <=> ("radius" \in changes)
  /\ (old.elevation # new.elevation) <=> ("elevation" \in changes)

\* RenderedPointSource.prototype._configure(changes), wrapped.
Configure(s, changes, d) ==
  /\ s = edited
  /\ Changed(data[s], d, changes)
  /\ \E m \in {ConfigureRenderedPointSource(ev, s, d, walls, changes)} :
     /\ data' = [data EXCEPT ![s] = d]
     /\ ev' = m.ev
     /\ last' = Handled("configure", s, changes, 0, m)
     /\ UNCHANGED <<walls, destroyed, edited, shading, uniforms, probe, rend, created>>

\* RenderedPointSource.prototype.destroy(), wrapped.
Destroy(s) ==
  /\ s = edited
  /\ \E m \in {DestroyRenderedPointSource(ev, s)} :
     /\ ev' = m.ev
     /\ destroyed' = [destroyed EXCEPT ![s] = TRUE]
     /\ uniforms' =
          [uniforms EXCEPT ![s] = DestroyedTextureUniforms(@, ev[s])]
     /\ last' = Handled("destroy", s, {}, 0, m)
     /\ UNCHANGED <<data, walls, edited, shading, probe, rend, created>>

\* Hooks "createWall".
CreateWall(w, blocks, fail) ==
  LET W == [walls EXCEPT ![w] = [exists |-> TRUE, blocks |-> blocks]]
  IN /\ ~walls[w].exists
     /\ CanFail(ev, fail)
     /\ fail # NoFail => fail.src = edited
     /\ \E m \in {WallHook(ev, "createWall", data, W, w, {}, fail)} :
        /\ walls' = W
        /\ ev' = m.ev
        /\ last' = Handled("createWall", "none", {}, w, m)
        /\ UNCHANGED <<data, destroyed, edited, shading, uniforms, probe, rend, created>>

\* Hooks "updateWall": the document has changed on the keys of `changes`.
UpdateWallDocument(w, changes, fail) ==
  LET old == walls[w]
      W == [walls EXCEPT ![w] =
              [exists |-> TRUE,
               blocks |-> IF "light" \in changes
                            THEN ~old.blocks ELSE old.blocks]]
  IN /\ walls[w].exists
     /\ changes # {}
     /\ CanFail(ev, fail)
     /\ fail # NoFail => fail.src = edited
     /\ fail # NoFail => WallChangeIsRelevant(changes)
     /\ \E m \in {WallHook(ev, "updateWall", data, W, w, changes, fail)} :
        /\ walls' = W
        /\ ev' = m.ev
        /\ last' = Handled("updateWall", "none", changes, w, m)
        /\ UNCHANGED <<data, destroyed, edited, shading, uniforms, probe, rend, created>>

\* Hooks "deleteWall".
DeleteWall(w, fail) ==
  LET W == [walls EXCEPT ![w] = NoWall]
  IN /\ walls[w].exists
     /\ CanFail(ev, fail)
     /\ fail # NoFail => fail.src = edited
     /\ \E m \in {WallHook(ev, "deleteWall", data, W, w, {}, fail)} :
        /\ walls' = W
        /\ ev' = m.ev
        /\ last' = Handled("deleteWall", "none", {}, w, m)
        /\ UNCHANGED <<data, destroyed, edited, shading, uniforms, probe, rend, created>>

Next ==
  \/ \E s \in SourceIds, alloc \in AllocOutcomes : InitializeShaders(s, alloc)
  \/ \E s \in SourceIds, changes \in ChangeSets :
       \E d \in SourceData(s) : Configure(s, changes, d)
  \/ \E s \in SourceIds : Destroy(s)
  \/ \E w \in WallIds, blocks \in BOOLEAN, fail \in Failures :
       CreateWall(w, blocks, fail)
  \/ \E w \in WallIds, changes \in SUBSET WallKeys, fail \in Failures :
       UpdateWallDocument(w, changes, fail)
  \/ \E w \in WallIds, fail \in Failures : DeleteWall(w, fail)

Spec == Init /\ [][Next]_vars

----------------------------------------------------------------------------
(* Vocabulary of the properties *)

WallOps == {"createWall", "updateWall", "deleteWall"}

\* The positions in the call log of the last handler where `op` was called
\* on the object `o` of the cache of source s.
CallsAt(s, o, op) ==
  {i \in 1..Len(last.calls) :
     last.calls[i] = [src |-> s, obj |-> o, op |-> op]}

\* The same for the handler a step is running.
CallsAtNext(s, o, op) ==
  {i \in 1..Len(last'.calls) :
     last'.calls[i] = [src |-> s, obj |-> o, op |-> op]}

\* The cache is complete: what the hook builds for every source.
StandardAssets ==
  {"wallGeometry", "shadowMesh", "shadowRenderer", "shadowVisionMask",
   "shadowQuadMesh"}

Ready(c) == c.has /\ StandardAssets \subseteq c.set

\* The mesh each renderer draws.
MeshOf(r) ==
  IF r = "shadowRenderer" THEN "shadowMesh" ELSE "shadowVisionLOSMesh"

Renderers == {"shadowRenderer", "shadowVisionLOSRenderer"}

\* The allocated render texture is the one the source's radius asks for.
TextureFits(c, d) ==
  /\ c.tex.width = 2 * d.radius
  /\ c.tex.height = 2 * d.radius
  /\ FracEq(c.tex.resolution, Resolution(FALSE, d.radius))

----------------------------------------------------------------------------
(* C1 *)

\* C1: for a source with a ready cache, after any sequence of notifications
\* the standard render target is allocated 2 x radius wide and high, at the
\* resolution the formula gives for the radius, whatever the changed fields
\* were (a position field together with radius included).
C1_TextureFollowsRadius ==
  \A s \in SourceIds : Ready(ev[s]) => TextureFits(ev[s], data[s])

----------------------------------------------------------------------------
(* C2 *)

\* C2: when a change of elevation reaches a source with a ready cache, the
\* wall index the shader-init hook created (wallGeometry) is asked to
\* re-evaluate the walls before the render target is rasterized again.
C2_ElevationRefreshesWallIndex ==
  (/\ last.op = "configure"
   /\ "elevation" \in last.changes
   /\ Ready(ev[last.src]))
  => \E i \in CallsAt(last.src, "wallGeometry", "refreshWalls") :
       \A j \in CallsAt(last.src, "shadowRenderer", "render") : i < j

----------------------------------------------------------------------------
(* C3 *)

\* C3: after a recognized change (position, radius or elevation) has been
\* handled, every render target the cache owns was rasterized at or after
\* the last update of its mesh in that handler.
C3_NoStaleTarget ==
  (last.op = "configure" /\ ~last.err)
  => \A r \in Renderers \cap ev[last.src].set :
       \A i \in CallsAt(last.src, MeshOf(r), "updateLightPosition") :
         \E j \in CallsAt(last.src, r, "render") : j > i

----------------------------------------------------------------------------
(* C4 *)

\* The wall hook a step runs changed the wall index of source s: the set of
\* walls it holds differs, or it holds the wall whose coordinates moved.
IndexChangedNext(s) ==
  \/ ev'[s].walls # ev[s].walls
  \/ /\ last'.op = "updateWall"
     /\ last'.wall \in ev'[s].walls
     /\ WALL_COORDINATES \cap last'.changes # {}

\* C4: on a wall created, updated or deleted, a cache whose wall index the
\* wall does not change does no work: its render target is not rasterized.
C4_UnaffectedCacheIdle ==
  [][\A s \in SourceIds :
       (last'.op \in WallOps /\ ev[s].has /\ ~IndexChangedNext(s))
       => CallsAtNext(s, "shadowRenderer", "render") = {}]_vars

----------------------------------------------------------------------------
(* C5 *)

\* C5: destroying a source's cache calls destroy() once on each asset the
\* cache holds and on no other, leaves no asset set and does not fail,
\* whatever subset of the assets was set; hence a second destroy of the same
\* source destroys nothing.
C5_DestroyReleasesOnce ==
  [][last'.op = "destroy"
     => /\ ~last'.err
        /\ ev'[last'.src].set = {}
        /\ \A a \in AssetSet :
             Cardinality(CallsAtNext(last'.src, a, "destroy"))
               = IF a \in ev[last'.src].set THEN 1 ELSE 0]_vars

\* A cache that never finished initializing has just been destroyed.
C5_Witness ==
  /\ last.op = "destroy"
  /\ {a \in AssetSet : CallsAt(last.src, a, "destroy") # {}}
       = {"wallGeometry", "shadowMesh"}
  /\ ev[last.src].set = {}

----------------------------------------------------------------------------
(* C6 *)

\* C6: once a source is destroyed, a later source-state-change or wall
\* notification for it is a no-op: no error, no call on a cache asset, and
\* the cache left as it was.
C6_DestroyedSourceIgnored ==
  [][\A s \in SourceIds :
       (/\ destroyed[s]
        /\ \/ last'.op = "configure" /\ last'.src = s
           \/ last'.op \in WallOps)
       => /\ ~last'.err
          /\ ev'[s] = ev[s]
          /\ \A i \in 1..Len(last'.calls) :
               last'.calls[i].src = s => last'.calls[i].obj = "wrapped"]_vars

----------------------------------------------------------------------------
(* C7 *)

\* C7: destroyed is terminal and the entry is removed: a destroyed source
\* carries no cache entry and never holds a cache asset again.
C7_DestroyedIsTerminal ==
  \A s \in SourceIds : destroyed[s] => (~ev[s].has /\ ev[s].set = {})

----------------------------------------------------------------------------
(* C8 *)

\* C8: a global-light source never has a cache entry, wall index, mesh or
\* render target, whatever notifications arrive.
C8_GlobalLightNeverCached ==
  \A s \in SourceIds : IsGlobalLightSource(s) => ev[s] = NoCache

\* The shader-init hook has just run for the global light.
C8_Witness ==
  /\ last.op = "initializeShaders"
  /\ IsGlobalLightSource(last.src)
  /\ ev[last.src] = NoCache

----------------------------------------------------------------------------
(* C9 *)

\* C9: when the first shader-init notification of a non-global source
\* completes, its cache holds a wall index (the full scan of the walls), a
\* shadow mesh built from that index, a standard render target built from
\* that mesh and a vision mask, and the standard target was rasterized once.
C9_FirstInitBuildsCache ==
  [][(/\ last'.op = "initializeShaders"
      /\ ~last'.err
      /\ ~IsGlobalLightSource(last'.src)
      /\ ~ev[last'.src].has)
     => LET c == ev'[last'.src]
        IN /\ {"wallGeometry", "shadowMesh", "shadowRenderer",
               "shadowVisionMask"} \subseteq c.set
           /\ c.walls = ScanWalls(data[last'.src], walls)
           /\ c.meshGeom = "wallGeometry"
           /\ c.rendMesh = "shadowMesh"
           /\ Cardinality(CallsAtNext(last'.src, "shadowRenderer", "render"))
                = 1]_vars

\* The first shader-init of a source has completed, over a scene whose wall
\* is relevant to it.
C9_Witness ==
  /\ last.op = "initializeShaders"
  /\ ~last.err
  /\ ~destroyed[last.src]
  /\ CallsAt(last.src, "wallGeometry", "new") # {}
  /\ ev[last.src].walls # {}
  /\ Ready(ev[last.src])

----------------------------------------------------------------------------
(* C10 *)

\* The place of a source in the fan-out order.
Position(s) == CHOOSE i \in 1..Len(Sources) : Sources[i] = s

\* C10: an error raised while one source's cache handles a wall notification
\* does not keep the sources later in the loop from handling it.
C10_FailureStaysLocal ==
  (last.op \in WallOps /\ last.err)
  => LET failed == last.calls[Len(last.calls)].src
     IN \A s \in SourceIds :
          (Position(s) > Position(failed) /\ Has(ev[s], "wallGeometry"))
          => \E i \in 1..Len(last.calls) : last.calls[i].src = s

\* C11: when a render texture cannot be allocated while the shaders of a
\* source are initialized, the handler ends without an exception propagating
\* and the shaders of the source have their shadow toggle uEVShadows off.
C11_AllocationFailureContained ==
  (last.op = "initializeShaders" /\ last.alloc # "ok") =>
    /\ ~last.err
    /\ \A l \in Layers : ~uniforms[last.src][l].uEVShadows


----------------------------------------------------------------------------
(* C12 *)

\* C12: when _configure reaches a source with a ready cache with a change of
\* radius only (no x, y or elevation), the standard render texture gets the
\* width, height and resolution of the new radius before it is rasterized
\* again, it is rasterized exactly once, and the wall index keeps its walls.
C12_RadiusOnlyResizesThenRenders ==
  [][(/\ last'.op = "configure"
      /\ last'.changes = {"radius"}
      /\ Ready(ev[last'.src]))
     => LET s == last'.src
        IN /\ TextureFits(ev'[s], data'[s])
           /\ Cardinality(CallsAtNext(s, "shadowRenderer", "render")) = 1
           /\ \E i \in CallsAtNext(s, "shadowRenderer", "resize") :
                \A j \in CallsAtNext(s, "shadowRenderer", "render") : i < j
           /\ ev'[s].walls = ev[s].walls
           /\ ~last'.err]_vars

\* A ready cache has taken a radius-only change to the radius whose texture
\* is capped at MAX_TEXTURE_SIZE, with a wall in its index.
C12_Witness ==
  /\ last.op = "configure"
  /\ last.changes = {"radius"}
  /\ Ready(ev[last.src])
  /\ data[last.src].radius = Radius(2)
  /\ ev[last.src].tex.width = 2 * Radius(2)
  /\ ev[last.src].walls # {}
  /\ CallsAt(last.src, "shadowRenderer", "render") # {}

----------------------------------------------------------------------------
(* The texture configuration as a function of the radius and of the scene *)

\* The radii probed: every one up to just above the radius at which the
\* standard texture reaches MAX_TEXTURE_SIZE.
MaxProbeRadius == 2100

\* The scene widths and heights probed for the line-of-sight renderer, below
\* and above MAX_TEXTURE_SIZE.
NumSceneSides == 8
SceneSides == {700 * k : k \in 1..NumSceneSides}

\* The rest of the program stands still while the function is probed.
SceneAtRest ==
  /\ data = [s \in SourceIds |-> InitialData(s)]
  /\ ev = [s \in SourceIds |-> NoCache]
  /\ walls = [w \in WallIds |-> NoWall]
  /\ destroyed = [s \in SourceIds |-> FALSE]
  /\ edited = "L1"
  /\ last = [op |-> "none", src |-> "none", changes |-> {}, wall |-> 0,
             alloc |-> "ok", calls |-> <<>>, err |-> FALSE]
  /\ shading = "WEBGL"
  /\ uniforms = [s \in SourceIds |-> NoShaders]

sceneVars == <<data, ev, walls, destroyed, edited, last, shading, uniforms>>

\* A renderer about to be constructed: a standard one for a source of some
\* radius, or a line-of-sight one in a scene of some width and height.
ProbeInputs ==
  [done : {FALSE}, los : {FALSE}, radius : 1..MaxProbeRadius,
   width : {0}, height : {0}, tex : {NoTexture}, grown : {FALSE}]
  \cup
  [done : {FALSE}, los : {TRUE}, radius : {1},
   width : SceneSides, height : SceneSides, tex : {NoTexture},
   grown : {FALSE}]

\* configureTexture, read through the getters of the class of the renderer.
TextureOf(los, radius, width, height) ==
  IF los
    THEN [width |-> width, height |-> height,
          resolution |-> ResolutionOf(width, height)]
    ELSE ConfigureTexture(FALSE, radius)

InitResolution ==
  /\ SceneAtRest
  /\ created = <<>>
  /\ rend = NoRenderer
  /\ probe \in ProbeInputs

\* constructor: PIXI.RenderTexture.create(this.configureTexture())
ProbeConstruct ==
  /\ ~probe.done
  /\ probe' = [probe EXCEPT
                 !.done = TRUE,
                 !.tex = TextureOf(probe.los, probe.radius,
                                   probe.width, probe.height)]
  /\ UNCHANGED <<sceneVars, rend, created>>

\* The radius of the source grows, and updateSourceRadius reads the getters
\* again.
ProbeGrow ==
  /\ probe.done
  /\ ~probe.los
  /\ probe.radius < MaxProbeRadius
  /\ probe' = [probe EXCEPT
                 !.radius = probe.radius + 1,
                 !.grown = TRUE,
                 !.tex = TextureOf(FALSE, probe.radius + 1, 0, 0)]
  /\ UNCHANGED <<sceneVars, rend, created>>

NextResolution == ProbeConstruct \/ ProbeGrow

SpecResolution == InitResolution /\ [][NextResolution]_vars

RECURSIVE Gcd(_, _)
Gcd(a, b) == IF b = 0 THEN a ELSE Gcd(b, a % b)

\* The quotient in lowest terms.
Lowest(f) ==
  LET g == Gcd(f.num, f.den)
  IN IF g = 0 THEN f ELSE Frac(f.num \div g, f.den \div g)

\* The pixels a texture is allocated along its width and its height.
PixelWidth(t) == Lowest(Frac(t.width * t.resolution.num, t.resolution.den))
PixelHeight(t) == Lowest(Frac(t.height * t.resolution.num, t.resolution.den))

----------------------------------------------------------------------------
(* C13 *)

\* C13: for every positive radius, and for every positive scene width and
\* height of the line-of-sight renderer, the resolution times the larger of
\* width and height is at most MAX_TEXTURE_SIZE.
C13_TextureWithinMaxSize ==
  probe.done =>
    /\ FracLeq(PixelWidth(probe.tex), Frac(MAX_TEXTURE_SIZE, 1))
    /\ FracLeq(PixelHeight(probe.tex), Frac(MAX_TEXTURE_SIZE, 1))

\* A line-of-sight texture of a scene higher than wide and higher than
\* MAX_TEXTURE_SIZE has been configured.
C13_Witness ==
  /\ probe.done
  /\ probe.los
  /\ probe.tex.width < probe.tex.height
  /\ probe.tex.height > MAX_TEXTURE_SIZE
  /\ probe.tex.resolution.num = MAX_TEXTURE_SIZE

----------------------------------------------------------------------------
(* C14 *)

\* C14: the pixel width of the standard texture (width x resolution) is the
\* smaller of MAX_TEXTURE_SIZE and 2 x radius, it never decreases when the
\* radius increases, and the resolution is never above 1.
C14_PixelWidthIsCappedDiameter ==
  [][/\ (probe'.done /\ ~probe'.los) =>
          /\ FracEq(PixelWidth(probe'.tex),
                    Frac(Min(MAX_TEXTURE_SIZE, 2 * probe'.radius), 1))
          /\ FracLeq(probe'.tex.resolution, Frac(1, 1))
     /\ (probe.done /\ probe'.done /\ ~probe.los
         /\ probe'.radius >= probe.radius) =>
          FracLeq(PixelWidth(probe.tex), PixelWidth(probe'.tex))]_vars

\* The radius of a standard renderer has grown past the one at which the
\* texture reaches MAX_TEXTURE_SIZE.
C14_Witness ==
  /\ probe.done
  /\ probe.grown
  /\ ~probe.los
  /\ 2 * probe.radius > MAX_TEXTURE_SIZE
  /\ FracEq(PixelWidth(probe.tex), Frac(MAX_TEXTURE_SIZE, 1))

----------------------------------------------------------------------------
(* C15 *)

\* C15: every notification of a wall created, deleted, or updated on a
\* coordinate or restriction key (a restriction key alone included) is
\* delivered to the wall index of every source that holds a cache, among the
\* light, vision and sound sources.
C15_WallChangeReachesEveryIndex ==
  (/\ last.op \in WallOps
   /\ last.op = "updateWall" => WallChangeIsRelevant(last.changes))
  => \A s \in SourceIds :
       (ev[s].has /\ Has(ev[s], "wallGeometry"))
         => CallsAt(s, "wallGeometry", IndexOp(last.op)) # {}

----------------------------------------------------------------------------
(* C16 *)

\* The calls the last handler made on the cache of source s.
CallsOnNext(s) == {i \in 1..Len(last'.calls) : last'.calls[i].src = s}

\* C16: a notification for a source without a cache is a no-op for the
\* cache: _configure only runs the wrapped method and raises nothing,
\* destroy only runs the wrapped method and destroys nothing, and the fan-out
\* of a wall change makes no call for the source and creates no cache.
C16_NoCacheNoWork ==
  [][/\ (last'.op \in {"configure", "destroy"} /\ ~ev[last'.src].has) =>
          /\ ev' = ev
          /\ ~last'.err
          /\ last'.calls =
               <<[src |-> last'.src, obj |-> "wrapped", op |-> last'.op]>>
     /\ last'.op \in WallOps =>
          \A s \in SourceIds :
            ~ev[s].has => (ev'[s] = ev[s] /\ CallsOnNext(s) = {})]_vars

\* _configure has run with a change of position and radius for a source
\* that has no cache, while another source has one.
C16_Witness ==
  /\ last.op = "configure"
  /\ {"x", "radius"} \subseteq last.changes
  /\ ~ev[last.src].has
  /\ \E s \in SourceIds : Ready(ev[s])

----------------------------------------------------------------------------
(* C17 *)

\* C17: a _configure whose changes hold none of x, y, radius and elevation
\* leaves the cache as it was: no wall refresh, no mesh update, no resize, no
\* rasterizing and no mask update; only the wrapped method runs.
C17_OtherChangesLeaveCacheAlone ==
  [][(last'.op = "configure" /\ last'.changes \cap ChangeKeys = {}) =>
       /\ ev' = ev
       /\ ~last'.err
       /\ last'.calls =
            <<[src |-> last'.src, obj |-> "wrapped", op |-> "configure"]>>]_vars

\* A ready cache with a wall in its index has taken a change of another key.
C17_Witness ==
  /\ last.op = "configure"
  /\ last.changes = {"alpha"}
  /\ Ready(ev[last.src])
  /\ ev[last.src].walls # {}

----------------------------------------------------------------------------
(* C18 *)

\* What the hook builds for a vision source on top of the standard assets.
LOSAssets ==
  {"shadowVisionLOSMesh", "shadowVisionLOSRenderer", "shadowVisionLOSMask"}

\* C18: a cache owns a line-of-sight render texture, with its mesh and its
\* mask, exactly when its source is a vision source: the cache of another
\* source never holds one, and the ready cache of a vision source holds all
\* three, next to the one standard renderer every ready cache owns.
C18_LOSAssetsIffVision ==
  \A s \in SourceIds :
    /\ ~IsVisionSource(s) => LOSAssets \cap ev[s].set = {}
    /\ Ready(ev[s]) =>
         /\ Has(ev[s], "shadowRenderer")
         /\ IsVisionSource(s) => LOSAssets \subseteq ev[s].set

----------------------------------------------------------------------------
(* C19 *)

\* The geometries a cache can hand to a mesh.
CacheGeometries == {"wallGeometry", "losGeometry"}

\* C19: every mesh a cache owns, the line-of-sight mesh included, was built
\* from a wall geometry the cache held when the mesh was constructed, never
\* from an unset one.
C19_MeshesBuiltFromHeldGeometry ==
  \A s \in SourceIds :
    /\ Has(ev[s], "shadowMesh") => ev[s].meshGeom \in CacheGeometries
    /\ Has(ev[s], "shadowVisionLOSMesh") =>
         ev[s].losMeshGeom \in CacheGeometries

----------------------------------------------------------------------------
(* One ShadowTextureRenderer, with its source, its mesh and its texture *)

\* Number of coordinates the source of the renderer takes along each axis.
NumCoordinates == 2

Coordinate(k) == 100 * k

Coordinates == {Coordinate(k) : k \in 1..NumCoordinates}

\* What the mesh draws: its geometry and the uniforms of its shader, in one
\* version number.
MeshShapes == {1, 2}

\* What canvas.app.renderer.render draws for a mesh into a texture.
Drawing(mesh, tex) ==
  [shape |-> mesh.shape, at |-> mesh.position, width |-> tex.width,
   height |-> tex.height, resolution |-> tex.resolution]

\* constructor: a texture as configureTexture says, nothing drawn yet.
NewRenderer(los, src, shape) ==
  [made |-> TRUE, los |-> los, src |-> src,
   mesh |-> [position |-> <<0, 0>>, shape |-> shape],
   tex |-> ConfigureTexture(los, src.radius), pixels |-> <<>>,
   op |-> "constructor", again |-> FALSE]

\* get topLeft
TopLeft(r) ==
  IF r.los THEN <<0, 0>>
  ELSE <<r.src.x - (Width(FALSE, r.src.radius) \div 2),
         r.src.y - (Height(FALSE, r.src.radius) \div 2)>>

\* A variant that draws over what the texture holds (clear: false).
RenderWithoutClear(r) ==
  LET tl == TopLeft(r)
      mesh == [r.mesh EXCEPT !.position = <<-tl[1], -tl[2]>>]
  IN [r EXCEPT !.mesh = mesh,
               !.pixels = Append(r.pixels, Drawing(mesh, r.tex))]

\* renderShadowMeshToTexture: anchors the mesh, then draws it into the
\* cleared texture.
RenderShadowMeshToTexture(r) ==
  LET tl == TopLeft(r)
      mesh == [r.mesh EXCEPT !.position = <<-tl[1], -tl[2]>>]
  IN [r EXCEPT !.mesh = mesh, !.pixels = <<Drawing(mesh, r.tex)>>]

\* update
RendererUpdate(r) == RenderShadowMeshToTexture(r)

\* updateSourceRadius on the renderer: the resized texture holds nothing
\* until it is drawn.
RendererUpdateSourceRadius(r) ==
  RenderShadowMeshToTexture(
    [r EXCEPT !.tex = ConfigureTexture(r.los, r.src.radius),
              !.pixels = <<>>])

RasterOps == {"renderShadowMeshToTexture", "update", "updateSourceRadius"}

\* The method `op` has returned r; `again` tells that the call before it
\* was a rasterizing one too.
Returned(r, op) ==
  [r EXCEPT !.op = op, !.again = (op \in RasterOps /\ rend.op \in RasterOps)]

InitRenderer ==
  /\ SceneAtRest
  /\ created = <<>>
  /\ probe = NoProbe
  /\ rend \in {NewRenderer(los, [x |-> x, y |-> y, radius |-> Radius(k)], 1) :
                 los \in BOOLEAN, x \in Coordinates, y \in Coordinates,
                 k \in 1..NumRadii}

\* The host moves the source.
RendMoveSource(x, y) ==
  /\ <<x, y>> # <<rend.src.x, rend.src.y>>
  /\ rend' = Returned([rend EXCEPT !.src.x = x, !.src.y = y], "move")
  /\ UNCHANGED <<sceneVars, probe, created>>

\* The host changes the radius of the source.
RendSetRadius(k) ==
  /\ Radius(k) # rend.src.radius
  /\ rend' = Returned([rend EXCEPT !.src.radius = Radius(k)], "radius")
  /\ UNCHANGED <<sceneVars, probe, created>>

\* The geometry of the mesh or the uniforms of its shader change.
RendChangeMesh(shape) ==
  /\ shape # rend.mesh.shape
  /\ rend' = Returned([rend EXCEPT !.mesh.shape = shape], "mesh")
  /\ UNCHANGED <<sceneVars, probe, created>>

RendRender ==
  /\ rend' = Returned(RenderShadowMeshToTexture(rend),
                      "renderShadowMeshToTexture")
  /\ UNCHANGED <<sceneVars, probe, created>>

RendUpdate ==
  /\ rend' = Returned(RendererUpdate(rend), "update")
  /\ UNCHANGED <<sceneVars, probe, created>>

RendUpdateSourceRadius ==
  /\ rend' = Returned(RendererUpdateSourceRadius(rend), "updateSourceRadius")
  /\ UNCHANGED <<sceneVars, probe, created>>

NextRenderer ==
  \/ \E x \in Coordinates, y \in Coordinates : RendMoveSource(x, y)
  \/ \E k \in 1..NumRadii : RendSetRadius(k)
  \/ \E shape \in MeshShapes : RendChangeMesh(shape)
  \/ RendRender
  \/ RendUpdate
  \/ RendUpdateSourceRadius

SpecRenderer == InitRenderer /\ [][NextRenderer]_vars

----------------------------------------------------------------------------
(* C20 *)

\* C20: rasterizing is idempotent: when renderShadowMeshToTexture or update
\* is called right after a rasterizing call, with no change of the source or
\* of the mesh in between, the texture holds the same content and the mesh
\* has the same anchor position as after the first call.
C20_RasterizingIsIdempotent ==
  [][(/\ rend.op \in RasterOps
      /\ rend'.op \in {"renderShadowMeshToTexture", "update"})
     => /\ rend'.pixels = rend.pixels
        /\ rend'.mesh.position = rend.mesh.position
        /\ rend'.tex = rend.tex]_vars

\* update has been called right after another rasterizing call on a standard
\* renderer whose source has moved and whose mesh has changed since
\* construction.
C20_Witness ==
  /\ rend.made
  /\ rend.op = "update"
  /\ rend.again
  /\ ~rend.los
  /\ rend.mesh.shape = 2
  /\ Len(rend.pixels) = 1
  /\ rend.mesh.position = <<rend.src.radius - rend.src.x,
                            rend.src.radius - rend.src.y>>
  /\ rend.mesh.position # <<0, 0>>

----------------------------------------------------------------------------
(* C21 *)

\* C21: whenever a cache is ready, uEVShadowSampler of the background, the
\* coloration and the illumination shader of its source holds the base
\* texture of the render texture of the cache's standard renderer, after
\* every rasterizing and every resize too.
C21_SamplerIsCurrentTexture ==
  \A s \in SourceIds :
    Ready(ev[s]) =>
      \A l \in Layers : uniforms[s][l].uEVShadowSampler = "baseTexture"

\* A cache that was destroyed and built again, with a second render texture,
\* has had that texture resized and rasterized by a change of radius.
C21_Witness ==
  /\ last.op = "configure"
  /\ "radius" \in last.changes
  /\ destroyed[last.src]
  /\ Ready(ev[last.src])
  /\ CallsAt(last.src, "shadowRenderer", "resize") # {}
  /\ CallsAt(last.src, "shadowRenderer", "render") # {}
  /\ uniforms[last.src]["illumination"].uEVShadowSampler = "baseTexture"

----------------------------------------------------------------------------
(* The shading algorithm of the scene can change while sources live *)

InitShading ==
  /\ data = [s \in SourceIds |-> InitialData(s)]
  /\ ev = [s \in SourceIds |-> NoCache]
  /\ walls = [w \in WallIds |-> NoWall]
  /\ destroyed = [s \in SourceIds |-> FALSE]
  /\ edited \in EditableSources
  /\ last = [op |-> "none", src |-> "none", changes |-> {}, wall |-> 0,
             alloc |-> "ok", calls |-> <<>>, err |-> FALSE]
  /\ shading \in ShadingTypes
  /\ uniforms = [s \in SourceIds |->
                   IF IsGlobalLightSource(s) THEN ShadersOf(NoShaders, shading)
                   ELSE NoShaders]
  /\ probe = NoProbe
  /\ rend = NoRenderer
  /\ created = <<>>

\* The user sets SETTINGS.SHADING.ALGORITHM of the scene; no code of the
\* module runs.
SetShading(algorithm) ==
  /\ algorithm # shading
  /\ shading' = algorithm
  /\ last' = [op |-> "setShading", src |-> "none", changes |-> {}, wall |-> 0,
              alloc |-> "ok", calls |-> <<>>, err |-> FALSE]
  /\ UNCHANGED <<data, ev, walls, destroyed, edited, uniforms, probe, rend, created>>

NextShading ==
  \/ \E algorithm \in ShadingTypes : SetShading(algorithm)
  \/ \E s \in SourceIds, alloc \in AllocOutcomes : InitializeShaders(s, alloc)
  \/ \E s \in SourceIds : Destroy(s)

SpecShading == InitShading /\ [][NextShading]_vars

----------------------------------------------------------------------------
(* C22 *)

\* C22: the shadow toggle uEVShadows of a lighting shader is on exactly when
\* the shading algorithm of the scene is WEBGL: createAdaptiveLightingShader
\* writes it so, and when the hook has built the shadow mesh of a source it
\* has written the same value on the three layers of the source.
C22_ToggleFollowsShading ==
  (/\ last.op = "initializeShaders"
   /\ CallsAt(last.src, "shadowMesh", "new") # {})
  => \A l \in Layers :
       /\ uniforms[last.src][l].created
       /\ uniforms[last.src][l].uEVShadows = (shading = "WEBGL")

----------------------------------------------------------------------------
(* The fan-out of a wall change, with the order the caches were created in *)

\* The hook for a source whose shaders are initialized; when it creates
\* source[MODULE_ID], the source is the latest in the order of creation.
InitializeShadersInOrder(s, alloc) ==
  /\ ShadersInitialized(s, alloc)
  /\ created' = IF ~ev[s].has /\ ~IsGlobalLightSource(s)
                  THEN Append(created, s) ELSE created

NextFanout ==
  \/ \E s \in SourceIds, alloc \in AllocOutcomes :
       InitializeShadersInOrder(s, alloc)
  \/ \E w \in WallIds, blocks \in BOOLEAN, fail \in Failures :
       CreateWall(w, blocks, fail)
  \/ \E w \in WallIds, changes \in SUBSET WallKeys, fail \in Failures :
       UpdateWallDocument(w, changes, fail)
  \/ \E w \in WallIds, fail \in Failures : DeleteWall(w, fail)

SpecFanout == Init /\ [][NextFanout]_vars

----------------------------------------------------------------------------
(* C23 *)

\* The place of source s in the order of creation.
PlaceOf(s) == CHOOSE i \in 1..Len(created) : created[i] = s

\* C23: within one wall change that the hooks act on, the wall indexes of
\* the caches are called in the order the caches were created, the index of
\* each cache exactly once, and a cache that is not called is not modified.
C23_FanoutInCreationOrder ==
  [][(/\ last'.op \in WallOps
      /\ last'.op = "updateWall" => WallChangeIsRelevant(last'.changes))
     => LET op == IndexOp(last'.op)
        IN /\ \A s \in SourceIds :
                (ev[s].has /\ Has(ev[s], "wallGeometry"))
                  => Cardinality(CallsAtNext(s, "wallGeometry", op)) = 1
           /\ \A s, t \in SourceIds :
                \A i \in CallsAtNext(s, "wallGeometry", op) :
                  \A j \in CallsAtNext(t, "wallGeometry", op) :
                    i < j => PlaceOf(s) < PlaceOf(t)
           /\ \A s \in SourceIds :
                CallsAtNext(s, "wallGeometry", op) = {} => ev'[s] = ev[s]]_vars

----------------------------------------------------------------------------
(* C24 *)

\* The anchor a renderer built now for the source of r, with the mesh of r,
\* has after its first rasterizing.
FreshAnchor(r) ==
  RenderShadowMeshToTexture(NewRenderer(r.los, r.src, r.mesh.shape))
    .mesh.position

\* C24: after any rasterizing of a standard renderer the mesh position is
\* the negation of the top-left corner (source position minus radius on each
\* axis), so that the source lies at the centre of the texture, and it is
\* the position a renderer built anew at the place of the source would have;
\* the mesh of a line-of-sight renderer is always at (0, 0).
C24_AnchorCentresSource ==
  /\ (rend.made /\ rend.los) => rend.mesh.position = <<0, 0>>
  /\ (rend.made /\ ~rend.los /\ rend.op \in RasterOps) =>
       /\ rend.mesh.position = <<rend.src.radius - rend.src.x,
                                 rend.src.radius - rend.src.y>>
       /\ rend.mesh.position = FreshAnchor(rend)
       /\ 2 * (rend.mesh.position[1] + rend.src.x) = rend.tex.width
       /\ 2 * (rend.mesh.position[2] + rend.src.y) = rend.tex.height

----------------------------------------------------------------------------
(* C25 *)

\* C25: an updateWall whose flattened keys hold no WALL_COORDINATES key and
\* no WALL_RESTRICTED key does nothing: no wall index is called, no render
\* texture is rasterized, and every cache stays as it was.
C25_IrrelevantWallUpdateIgnored ==
  [][(/\ last'.op = "updateWall"
      /\ last'.changes \cap (WALL_COORDINATES \cup WALL_RESTRICTED) = {})
     => /\ ev' = ev
        /\ last'.calls = <<>>
        /\ ~last'.err]_vars

\* A door-only update of a wall has reached the hook while a ready cache
\* held the wall in its index.
C25_Witness ==
  /\ last.op = "updateWall"
  /\ last.changes = {"door"}
  /\ \E s \in SourceIds : Ready(ev[s]) /\ last.wall \in ev[s].walls

----------------------------------------------------------------------------
(* C26 *)

\* What a run of the hook on a complete cache does.
RepeatedInitCalls(s) ==
  <<[src |-> s, obj |-> "shadowRenderer", op |-> "render"],
    [src |-> s, obj |-> "uniforms", op |-> "uEVShadowSampler"]>>

\* C26: a shader-init notification for a source whose cache is complete
\* constructs no wall index, mesh, renderer or mask and keeps the objects
\* the cache holds; it only rasterizes the standard render texture again and
\* assigns the sampler uniforms again.
C26_RepeatedInitKeepsObjects ==
  [][(last'.op = "initializeShaders" /\ Ready(ev[last'.src]))
     => /\ ev' = ev
        /\ last'.calls = RepeatedInitCalls(last'.src)
        /\ ~last'.err
        /\ \A l \in Layers :
             uniforms'[last'.src][l].uEVShadowSampler = "baseTexture"]_vars

\* The hook has run again on the complete cache of a vision source, whose
\* texture a change of radius had resized.
C26_Witness ==
  /\ last.op = "initializeShaders"
  /\ IsVisionSource(last.src)
  /\ last.calls = RepeatedInitCalls(last.src)
  /\ Ready(ev[last.src])
  /\ LOSAssets \subseteq ev[last.src].set
  /\ ev[last.src].tex.width = 2 * Radius(2)

----------------------------------------------------------------------------
(* C27 *)

\* The positions in the call log of the last handler where the wrapped
\* method of the host was called.
WrappedCalls == {i \in 1..Len(last.calls) : last.calls[i].obj = "wrapped"}

\* C27: each wrapper calls the wrapped method of the host exactly once,
\* whether the source has a cache or not: _configure calls it before any work
\* on the cache, destroy calls it after the assets of the cache are released.
C27_WrappersDelegateOnce ==
  /\ last.op = "configure" =>
       /\ WrappedCalls = {1}
       /\ last.calls[1] =
            [src |-> last.src, obj |-> "wrapped", op |-> "configure"]
  /\ last.op = "destroy" =>
       /\ WrappedCalls = {Len(last.calls)}
       /\ last.calls[Len(last.calls)] =
            [src |-> last.src, obj |-> "wrapped", op |-> "destroy"]
       /\ \A i \in 1..(Len(last.calls) - 1) : last.calls[i].op = "destroy"
       /\ ~last.err

\* destroy has released the complete cache of a vision source and then
\* called the wrapped method.
C27_Witness ==
  /\ last.op = "destroy"
  /\ IsVisionSource(last.src)
  /\ Len(last.calls) = Len(Assets) + 1
  /\ last.calls[Len(last.calls)].obj = "wrapped"
  /\ ev[last.src].set = {}

============================================================================
